---- MODULE Spec2Model ----
(***************************************************************************)
(* State-machine model of the two maintenance scripts                      *)
(*   src/replace_log_with_logger.py  (class LogToLoggerReplacer)           *)
(*   src/fix_logger_method_calls.py  (class LoggerMethodCallFixer)         *)
(*                                                                         *)
(* A text is a sequence of tokens.  Every token stands for a fixed piece   *)
(* of characters ("this.", "#log", "ger", "(", ")", "{", " ", "\n", "\r",  *)
(* "Message", and "x" for any other character), so that the regular        *)
(* expressions of the scripts can be evaluated on it exactly as            *)
(* re.subn evaluates them on the characters.                               *)
(***************************************************************************)
EXTENDS Integers, Sequences, FiniteSets, TLC

\* ------------------------------------------------------------------ tokens
THIS == "this."
LOG == "#log"
GER == "ger"
MSG == "Message"
LP == "("
RP == ")"
LB == "{"
SP == " "
LF == "LF"
CR == "CR"
X == "x"

\* Characters matched by \s.
IsWs(c) == c \in {SP, LF, CR}

\* t[i], or the empty string outside the text (start or end of the string).
At(t, i) == IF i >= 1 /\ i <= Len(t) THEN t[i] ELSE ""

\* ------------------------------------------------------------------ bounds
\* Longest file text of the exhaustive specification SpecTexts.
MaxLen == 4
\* Number of runs of a script in SpecRuns.
MaxRuns == 2
\* Number of paths of the input list (the fixer's target_files has three).
NumFiles == 3

FileList == [i \in 1..NumFiles |-> i]
\* A path with no file, a backup path with no copy (no text holds these tokens).
Missing == <<"missing">>
NoFile == <<"nofile">>

\* ------------------------------------------------------------ text-mode I/O
\* open(path, 'r', encoding='utf-8').read(): universal newlines, "\r\n" and a
\* lone "\r" are read as "\n".
RECURSIVE Decode(_)
Decode(b) ==
  IF b = <<>> THEN <<>>
  ELSE IF Head(b) = CR
       THEN IF Len(b) >= 2 /\ b[2] = LF
            THEN <<LF>> \o Decode(SubSeq(b, 3, Len(b)))
            ELSE <<LF>> \o Decode(Tail(b))
       ELSE <<Head(b)>> \o Decode(Tail(b))

\* open(path, 'w', encoding='utf-8').write(text): "\n" is written as os.linesep.
RECURSIVE Encode(_, _)
Encode(sep, t) ==
  IF t = <<>> THEN <<>>
  ELSE IF Head(t) = LF /\ sep = "CRLF"
       THEN <<CR, LF>> \o Encode(sep, Tail(t))
       ELSE <<Head(t)>> \o Encode(sep, Tail(t))

\* --------------------------------------------------------------- the rules
\* Index of the first ")" at or after j, 0 when there is none.
RECURSIVE FirstClose(_, _)
FirstClose(t, j) ==
  IF j > Len(t) THEN 0
  ELSE IF t[j] = RP THEN j ELSE FirstClose(t, j + 1)

\* Index of the first token at or after j that is not whitespace (Len+1 at the end).
RECURSIVE SkipWs(_, _)
SkipWs(t, j) ==
  IF j > Len(t) THEN j
  ELSE IF IsWs(t[j]) THEN SkipWs(t, j + 1) ELSE j

\* r'this\.#log\(' at i: index of the last token of the match, 0 for no match.
Match1(t, i) ==
  IF At(t, i) = THIS /\ At(t, i + 1) = LOG /\ At(t, i + 2) = LP
  THEN i + 2 ELSE 0

\* r'#log\(([^)]+)\)\s*{' at i.
Match2(t, i) ==
  IF At(t, i) = LOG /\ At(t, i + 1) = LP
  THEN LET c == FirstClose(t, i + 2)
       IN IF c > i + 2
          THEN LET b == SkipWs(t, c + 1)
               IN IF At(t, b) = LB THEN b ELSE 0
          ELSE 0
  ELSE 0

\* A mutant of rule 3: the pattern without its lookarounds.
Match3Bare(t, i) ==
  IF At(t, i) = LOG THEN i ELSE 0

\* r'(?<!#logger)(?<!this\.)#log(?!ger)(?=\s|\(|$)' at i.
Match3(t, i) ==
  IF /\ At(t, i) = LOG
     /\ ~(At(t, i - 2) = LOG /\ At(t, i - 1) = GER)
     /\ At(t, i - 1) # THIS
     /\ At(t, i + 1) # GER
     /\ \/ IsWs(At(t, i + 1))
        \/ At(t, i + 1) = LP
        \/ i = Len(t)
  THEN i ELSE 0

\* r'this\.#logger\(' at i (the fixer's pattern).
Match4(t, i) ==
  IF /\ At(t, i) = THIS /\ At(t, i + 1) = LOG
     /\ At(t, i + 2) = GER /\ At(t, i + 3) = LP
  THEN i + 3 ELSE 0

MatchEnd(r, t, i) ==
  CASE r = 1 -> Match1(t, i)
    [] r = 2 -> Match2(t, i)
    [] r = 3 -> Match3(t, i)
    [] r = 4 -> Match4(t, i)

\* The replacement of the match of rule r that starts at i.
Repl(r, t, i) ==
  CASE r = 1 -> <<THIS, LOG, GER, LP>>
    [] r = 2 -> <<LOG, GER, LP>>
                  \o SubSeq(t, i + 2, FirstClose(t, i + 2) - 1)
                  \o <<RP, SP, LB>>
    [] r = 3 -> <<LOG, GER>>
    [] r = 4 -> <<THIS, LOG, MSG, LP>>

\* re.subn(pattern, replacement, t): leftmost non-overlapping matches, scanned
\* from position i; the lookbehinds read the subject string t.
RECURSIVE Scan(_, _, _)
Scan(r, t, i) ==
  IF i > Len(t) THEN [text |-> <<>>, count |-> 0]
  ELSE LET e == MatchEnd(r, t, i)
       IN IF e # 0
          THEN LET rest == Scan(r, t, e + 1)
               IN [text |-> Repl(r, t, i) \o rest.text, count |-> rest.count + 1]
          ELSE LET rest == Scan(r, t, i + 1)
               IN [text |-> <<t[i]>> \o rest.text, count |-> rest.count]

subn(r, t) == Scan(r, t, 1)

\* self.patterns of the replacer, self.pattern of the fixer.
patterns(s) == IF s = "replacer" THEN <<1, 2, 3>> ELSE <<4>>


\* ------------------------------------------------------------------- state
VARIABLES
  script,               \* which script runs: "replacer" or "fixer"
  linesep,              \* os.linesep of the platform: "LF" or "CRLF"
  disk,                 \* path -> bytes of the file, or Missing
  backup,               \* path -> bytes of its copy under backup_dir, or NoFile
  rpc,                  \* position of run(): "new", "loop", "call", "done", "stopped"
  js_files,             \* the list run() iterates over (js_files / target_files)
  idx,                  \* index of the current path in js_files
  files_processed,      \* self.files_processed
  replacements_made,    \* self.replacements_made
  modified_files,       \* modified_files of run()
  pc,                   \* position of process_file()
  content,              \* content (new_content of the fixer)
  original_content,     \* original_content
  replacements_in_file, \* replacements_in_file (count of the fixer)
  k,                    \* index of the next rule of self.patterns
  result,               \* the pair process_file returns
  runs,                 \* number of runs started so far
  disk0,                \* history: the files before the first run
  pre,                  \* history: disk and backup of the current file at the call
  io_failed,            \* history: an I/O failure was raised in the current call
  results,              \* history: what process_file returned in this run
  prev_ok,              \* history: the last call on the path returned normally
  backed_ok,            \* history: the backup of the path is a completed copy
  trace                 \* history: before, after and count of each rule of the call

vars == <<script, linesep, disk, backup, rpc, js_files, idx, files_processed,
          replacements_made, modified_files, pc, content, original_content,
          replacements_in_file, k, result, runs, disk0, pre, io_failed,
          results, prev_ok, backed_ok, trace>>

fsVars == <<disk, backup>>
runVars == <<rpc, js_files, idx, files_processed, replacements_made,
             modified_files, runs, results, prev_ok>>
envVars == <<script, linesep, disk0>>
bufVars == <<content, original_content, replacements_in_file, k>>

Files == 1..NumFiles
file_path == js_files[idx]
Exists(f) == disk[f] # Missing

\* File contents of the specification Spec.
Samples ==
  { <<THIS, LOG, LP, LOG>>,          \* this.#log(#log
    <<THIS, LOG, GER, LP>>,          \* this.#logger(
    <<LOG, LP, X, RP, LB>>,          \* #log(x){
    <<LOG, CR, LF>>,                 \* #log\r\n
    <<X, LF>> }                      \* x\n

\* File contents of the specification SpecRuns.
SamplesRuns ==
  { <<LOG, LP, LOG, GER, LOG, LP, X, RP, LB>>,   \* #log(#logger#log(x){
    <<LOG, LP, X, RP, LB>>,                       \* #log(x){
    <<THIS, LOG, GER, LP>>,                       \* this.#logger(
    <<THIS, LOG, LP, LF>> }                       \* this.#log(\n

\* The characters of a decoded text without line ends.
TextAlphabet == {THIS, LOG, GER, LP, RP, LB, SP, X}
Texts(n) == UNION {[1..m -> TextAlphabet] : m \in 0..n}

\* The state after __init__, for a given content of the project directory.
InitWith(d) ==
  /\ script \in {"replacer", "fixer"}
  /\ disk = d
  /\ disk0 = d
  /\ backup = [f \in Files |-> NoFile]
  /\ rpc = "new"
  /\ js_files = <<>>
  /\ idx = 0
  /\ files_processed = 0
  /\ replacements_made = 0
  /\ modified_files = <<>>
  /\ pc = "idle"
  /\ content = <<>>
  /\ original_content = <<>>
  /\ replacements_in_file = 0
  /\ k = 0
  /\ result = <<FALSE, 0>>
  /\ runs = 1
  /\ pre = [disk |-> Missing, backup |-> NoFile, prev_ok |-> FALSE]
  /\ io_failed = FALSE
  /\ results = <<>>
  /\ prev_ok = [f \in Files |-> FALSE]
  /\ backed_ok = [f \in Files |-> FALSE]
  /\ trace = <<>>

Init ==
  /\ linesep \in {"LF", "CRLF"}
  /\ \E d \in [Files -> Samples \cup {Missing}] : InitWith(d)

\* Longer texts: the second rule alone, with the other rules, and nested.
LongTexts ==
  { <<LOG, LP, X, RP, LB>>,                               \* #log(x){
    <<LOG, LP, X, SP, X, RP, SP, SP, LB>>,                \* #log(x x)  {
    <<THIS, LOG, LP, LOG, LP, X, RP, LB, LOG>>,           \* this.#log(#log(x){#log
    <<LOG, LP, THIS, LOG, LP, X, RP, LB>>,                \* #log(this.#log(x){
    <<LOG, LP, LOG, LP, X, RP, LB>>,                      \* #log(#log(x){
    <<LOG, LP, LOG, GER, LOG, LP, X, RP, LB>>,            \* #log(#logger#log(x){
    <<LOG, GER, LP, X, RP, LB, LOG, SP, THIS, LOG, LP>>,  \* #logger(x){#log this.#log(
    <<THIS, LOG, GER, LP, X, RP, THIS, LOG, GER, LP>> }   \* this.#logger(x)this.#logger(

InitTexts ==
  /\ linesep = "LF"
  /\ \E t \in Texts(MaxLen) \cup LongTexts :
       InitWith([f \in Files |-> IF f = 1 THEN t ELSE Missing])

InitRuns ==
  /\ linesep \in {"LF", "CRLF"}
  /\ \E t \in SamplesRuns :
       InitWith([f \in Files |-> IF f = 1 THEN t ELSE Missing])

\* ------------------------------------------------------------------- run()
\* find_js_files(): the existing files, in order; the fixer takes target_files.
Discovered ==
  IF script = "replacer"
  THEN SelectSeq(FileList, LAMBDA f : Exists(f))
  ELSE FileList

\* run() up to the loop: the list of paths; the replacer returns on an empty one.
RunStart ==
  /\ rpc = "new"
  /\ js_files' = Discovered
  /\ idx' = 1
  /\ modified_files' = <<>>
  /\ rpc' = IF script = "replacer" /\ Discovered = <<>> THEN "done" ELSE "loop"
  /\ UNCHANGED <<files_processed, replacements_made, runs, results, prev_ok>>
  /\ UNCHANGED <<fsVars, envVars, bufVars, pc, result, pre, io_failed, backed_ok, trace>>

\* A mutant of LoopSkip: the missing path is counted as processed.
LoopSkipCounted ==
  /\ rpc = "loop"
  /\ idx <= Len(js_files)
  /\ script = "fixer"
  /\ ~Exists(file_path)
  /\ idx' = idx + 1
  /\ files_processed' = files_processed + 1
  /\ UNCHANGED <<rpc, js_files, replacements_made, modified_files, runs,
                 results, prev_ok>>
  /\ UNCHANGED <<fsVars, envVars, bufVars, pc, result, pre, io_failed, backed_ok, trace>>

\* The fixer's "if not file_path.exists(): ... continue".
LoopSkip ==
  /\ rpc = "loop"
  /\ idx <= Len(js_files)
  /\ script = "fixer"
  /\ ~Exists(file_path)
  /\ idx' = idx + 1
  /\ UNCHANGED <<rpc, js_files, files_processed, replacements_made,
                 modified_files, runs, results, prev_ok>>
  /\ UNCHANGED <<fsVars, envVars, bufVars, pc, result, pre, io_failed, backed_ok, trace>>

\* The loop calls process_file(file_path).
LoopCall ==
  /\ rpc = "loop"
  /\ idx <= Len(js_files)
  /\ script = "replacer" \/ Exists(file_path)
  /\ rpc' = "call"
  /\ pc' = "read"
  /\ pre' = [disk |-> disk[file_path], backup |-> backup[file_path],
             prev_ok |-> prev_ok[file_path]]
  /\ io_failed' = FALSE
  /\ content' = <<>>
  /\ original_content' = <<>>
  /\ replacements_in_file' = 0
  /\ k' = 0
  /\ trace' = <<>>
  /\ result' = <<FALSE, 0>>
  /\ UNCHANGED <<js_files, idx, files_processed, replacements_made,
                 modified_files, runs, results, prev_ok>>
  /\ UNCHANGED <<fsVars, envVars, backed_ok>>

\* A mutant of Aggregate: the count replaces the total instead of adding to it.
AggregateOverwrite(was_modified, replacements) ==
  /\ modified_files' = IF was_modified
                       THEN Append(modified_files, file_path)
                       ELSE modified_files
  /\ replacements_made' = IF was_modified
                          THEN replacements
                          ELSE replacements_made
  /\ files_processed' = files_processed + 1

\* What the loop does with the pair process_file returned.
Aggregate(was_modified, replacements) ==
  /\ modified_files' = IF was_modified
                       THEN Append(modified_files, file_path)
                       ELSE modified_files
  /\ replacements_made' = IF was_modified
                          THEN replacements_made + replacements
                          ELSE replacements_made
  /\ files_processed' = files_processed + 1

\* process_file has returned: the loop aggregates and goes to the next path.
LoopReturn ==
  /\ rpc = "call"
  /\ pc = "ret"
  /\ Aggregate(result[1], result[2])
  /\ results' = Append(results, [file |-> file_path, changed |-> result[1],
                                 count |-> result[2], failed |-> io_failed])
  /\ prev_ok' = [prev_ok EXCEPT ![file_path] = ~io_failed]
  /\ idx' = idx + 1
  /\ rpc' = "loop"
  /\ pc' = "idle"
  /\ UNCHANGED <<js_files, runs>>
  /\ UNCHANGED <<fsVars, envVars, bufVars, result, pre, io_failed, backed_ok, trace>>

\* The loop is over: the summary is printed and run() returns.
LoopEnd ==
  /\ rpc = "loop"
  /\ idx > Len(js_files)
  /\ rpc' = "done"
  /\ UNCHANGED <<js_files, idx, files_processed, replacements_made,
                 modified_files, runs, results, prev_ok>>
  /\ UNCHANGED <<fsVars, envVars, bufVars, pc, result, pre, io_failed, backed_ok, trace>>

\* ----------------------------------------------------------- process_file()
callVars == <<rpc, js_files, idx, files_processed, replacements_made,
              modified_files, runs, results, prev_ok>>

\* An exception is raised inside the try block.
Raise ==
  /\ pc' = "raise"
  /\ io_failed' = TRUE

\* with open(file_path, 'r', encoding='utf-8') as f: content = f.read()
ReadOk ==
  /\ rpc = "call" /\ pc = "read"
  /\ content' = Decode(disk[file_path])
  /\ original_content' = Decode(disk[file_path])
  /\ replacements_in_file' = 0
  /\ k' = 1
  /\ trace' = <<>>
  /\ pc' = "rules"
  /\ UNCHANGED <<callVars, fsVars, envVars, result, pre, io_failed, backed_ok>>

\* The file cannot be opened or decoded.
ReadFail ==
  /\ rpc = "call" /\ pc = "read"
  /\ Raise
  /\ UNCHANGED <<callVars, fsVars, envVars, bufVars, result, pre, backed_ok, trace>>

\* A mutant of ApplyRule: every rule is run on original_content.
ApplyRuleOnOriginal ==
  /\ rpc = "call" /\ pc = "rules"
  /\ k <= Len(patterns(script))
  /\ LET r == subn(patterns(script)[k], original_content)
     IN /\ content' = IF r.count > 0 THEN r.text ELSE content
        /\ replacements_in_file' = IF r.count > 0
                                   THEN replacements_in_file + r.count
                                   ELSE replacements_in_file
        /\ trace' = Append(trace, [rule |-> patterns(script)[k],
                                   before |-> content,
                                   after |-> IF r.count > 0 THEN r.text ELSE content,
                                   count |-> r.count])
  /\ k' = k + 1
  /\ UNCHANGED <<callVars, fsVars, envVars, original_content, pc, result, pre,
                 io_failed, backed_ok>>

\* One turn of "for pattern, replacement in self.patterns" (the fixer's one subn).
ApplyRule ==
  /\ rpc = "call" /\ pc = "rules"
  /\ k <= Len(patterns(script))
  /\ LET r == subn(patterns(script)[k], content)
     IN /\ content' = IF r.count > 0 THEN r.text ELSE content
        /\ replacements_in_file' = IF r.count > 0
                                   THEN replacements_in_file + r.count
                                   ELSE replacements_in_file
        /\ trace' = Append(trace, [rule |-> patterns(script)[k],
                                   before |-> content,
                                   after |-> IF r.count > 0 THEN r.text ELSE content,
                                   count |-> r.count])
  /\ k' = k + 1
  /\ UNCHANGED <<callVars, fsVars, envVars, original_content, pc, result, pre,
                 io_failed, backed_ok>>

\* A mutant of ShouldWrite: the file is written back whatever the rules did.
ShouldWriteAlways == TRUE

\* "if content != original_content" of the replacer, "if count > 0" of the fixer.
ShouldWrite ==
  IF script = "replacer"
  THEN content # original_content
  ELSE replacements_in_file > 0

\* After the last rule: go on to back up and write, or return (False, 0).
Decide ==
  /\ rpc = "call" /\ pc = "rules"
  /\ k > Len(patterns(script))
  /\ IF ShouldWrite
     THEN /\ pc' = IF script = "replacer" THEN "backup" ELSE "write_open"
          /\ UNCHANGED result
     ELSE /\ pc' = "ret"
          /\ result' = <<FALSE, 0>>
  /\ UNCHANGED <<callVars, fsVars, envVars, bufVars, pre, io_failed, backed_ok, trace>>

\* backup_file up to open(backup_path, 'w'): the copy is created or truncated.
BackupOpen ==
  /\ rpc = "call" /\ pc = "backup"
  /\ backup' = [backup EXCEPT ![file_path] = <<>>]
  /\ backed_ok' = [backed_ok EXCEPT ![file_path] = FALSE]
  /\ pc' = "backup_data"
  /\ UNCHANGED <<callVars, disk, envVars, bufVars, result, pre, io_failed, trace>>

\* mkdir, the read of the original or the open of the copy fails.
BackupOpenFail ==
  /\ rpc = "call" /\ pc = "backup"
  /\ Raise
  /\ UNCHANGED <<callVars, fsVars, envVars, bufVars, result, pre, backed_ok, trace>>

\* dst.write(content) and the close of the copy.
BackupData ==
  /\ rpc = "call" /\ pc = "backup_data"
  /\ backup' = [backup EXCEPT ![file_path] = Encode(linesep, Decode(disk[file_path]))]
  /\ backed_ok' = [backed_ok EXCEPT ![file_path] = TRUE]
  /\ pc' = "write_open"
  /\ UNCHANGED <<callVars, disk, envVars, bufVars, result, pre, io_failed, trace>>

\* The write of the copy fails after n tokens of it.
BackupDataFail ==
  /\ rpc = "call" /\ pc = "backup_data"
  /\ \E n \in 0..(Len(Encode(linesep, Decode(disk[file_path]))) - 1) :
       backup' = [backup EXCEPT ![file_path] =
                    SubSeq(Encode(linesep, Decode(disk[file_path])), 1, n)]
  /\ Raise
  /\ UNCHANGED <<callVars, disk, envVars, bufVars, result, pre, backed_ok, trace>>

\* with open(file_path, 'w', encoding='utf-8') as f: the file is truncated.
WriteOpen ==
  /\ rpc = "call" /\ pc = "write_open"
  /\ disk' = [disk EXCEPT ![file_path] = <<>>]
  /\ pc' = "write_data"
  /\ UNCHANGED <<callVars, backup, envVars, bufVars, result, pre, io_failed,
                 backed_ok, trace>>

\* The file cannot be opened for writing.
WriteOpenFail ==
  /\ rpc = "call" /\ pc = "write_open"
  /\ Raise
  /\ UNCHANGED <<callVars, fsVars, envVars, bufVars, result, pre, backed_ok, trace>>

\* f.write(content), the close, and "return True, replacements_in_file".
WriteData ==
  /\ rpc = "call" /\ pc = "write_data"
  /\ disk' = [disk EXCEPT ![file_path] = Encode(linesep, content)]
  /\ result' = <<TRUE, replacements_in_file>>
  /\ pc' = "ret"
  /\ UNCHANGED <<callVars, backup, envVars, bufVars, pre, io_failed, backed_ok, trace>>

\* The write of the file fails after n tokens of the new content.
WriteDataFail ==
  /\ rpc = "call" /\ pc = "write_data"
  /\ \E n \in 0..(Len(Encode(linesep, content)) - 1) :
       disk' = [disk EXCEPT ![file_path] = SubSeq(Encode(linesep, content), 1, n)]
  /\ Raise
  /\ UNCHANGED <<callVars, backup, envVars, bufVars, result, pre, backed_ok, trace>>

\* A mutant of Except: the exception leaves process_file and ends run().
ExceptPropagates ==
  /\ rpc = "call" /\ pc = "raise"
  /\ rpc' = "aborted"
  /\ pc' = "idle"
  /\ UNCHANGED <<js_files, idx, files_processed, replacements_made,
                 modified_files, runs, results, prev_ok>>
  /\ UNCHANGED <<fsVars, envVars, bufVars, result, pre, io_failed, backed_ok, trace>>

\* "except Exception as e: print(...); return False, 0".
Except ==
  /\ rpc = "call" /\ pc = "raise"
  /\ result' = <<FALSE, 0>>
  /\ pc' = "ret"
  /\ UNCHANGED <<callVars, fsVars, envVars, bufVars, pre, io_failed, backed_ok, trace>>

\* ---------------------------------------------------------- several runs
\* The process is terminated from outside while run() is in its loop.
Stop ==
  /\ rpc \in {"loop", "call"}
  /\ rpc' = "stopped"
  /\ pc' = "idle"
  /\ prev_ok' = IF rpc = "call"
                THEN [prev_ok EXCEPT ![file_path] = FALSE]
                ELSE prev_ok
  /\ UNCHANGED <<js_files, idx, files_processed, replacements_made,
                 modified_files, runs, results>>
  /\ UNCHANGED <<fsVars, envVars, bufVars, result, pre, io_failed, backed_ok, trace>>

\* main() is started again on the same project root: a new object.
NewRun ==
  /\ rpc \in {"done", "stopped"}
  /\ runs < MaxRuns
  /\ runs' = runs + 1
  /\ rpc' = "new"
  /\ js_files' = <<>>
  /\ idx' = 0
  /\ files_processed' = 0
  /\ replacements_made' = 0
  /\ modified_files' = <<>>
  /\ results' = <<>>
  /\ UNCHANGED prev_ok
  /\ UNCHANGED <<fsVars, envVars, bufVars, pc, result, pre, io_failed, backed_ok, trace>>

\* ---------------------------------------------------------- specifications
Next ==
  \/ RunStart
  \/ LoopSkip
  \/ LoopCall
  \/ LoopReturn
  \/ LoopEnd
  \/ ReadOk
  \/ ReadFail
  \/ ApplyRule
  \/ Decide
  \/ BackupOpen
  \/ BackupOpenFail
  \/ BackupData
  \/ BackupDataFail
  \/ WriteOpen
  \/ WriteOpenFail
  \/ WriteData
  \/ WriteDataFail
  \/ Except

NextRuns ==
  \/ Next
  \/ Stop
  \/ NewRun

\* One run of a script over three paths with sample contents.
Spec == Init /\ [][Next]_vars

\* One run of a script over one file, for every text of at most MaxLen tokens.
SpecTexts == InitTexts /\ [][Next]_vars

\* Up to MaxRuns runs on the same project root, any of them terminated early.
SpecRuns == InitRuns /\ [][NextRuns]_vars

\* ------------------------------------------------------------------ claims
InCall == rpc = "call"
RulesDone == k > Len(patterns(script))
Existed(f) == disk0[f] # Missing

RECURSIVE SumCounts(_)
SumCounts(rs) == IF rs = <<>> THEN 0 ELSE Head(rs).count + SumCounts(Tail(rs))

FilesOf(rs) == [i \in 1..Len(rs) |-> rs[i].file]

\* The rules of the replacer applied one after the other to T.
RuleEngine(T) ==
  LET a == subn(1, T)
      b == subn(2, a.text)
      c == subn(3, b.text)
  IN [text |-> c.text, count |-> a.count + b.count + c.count]

\* The positions of "#log" in t, in ascending order.
LogPos(t) == SelectSeq([i \in 1..Len(t) |-> i], LAMBDA i : t[i] = LOG)

\* The number of "ger" that directly follow position i of t.
RECURSIVE GerRun(_, _)
GerRun(t, i) == IF At(t, i + 1) = GER THEN 1 + GerRun(t, i + 1) ELSE 0

\* The occurrences of "#log" (by rank) that are "#log" in a and "#logger" in b.
Converted(a, b) ==
  {j \in 1..Len(LogPos(a)) :
     /\ GerRun(a, LogPos(a)[j]) = 0
     /\ j <= Len(LogPos(b))
     /\ GerRun(b, LogPos(b)[j]) = 1}

\* C1 (as claimed): from the start of backup_file to the end of the overwrite,
\* the bytes the file had when process_file was called are in the file or in
\* its backup.
C1_OriginalKept ==
  (InCall /\ script = "replacer"
     /\ pc \in {"backup_data", "write_open", "write_data", "raise", "ret"})
  => (disk[file_path] = pre.disk \/ backup[file_path] = pre.disk)

\* C1 (the ordering alone): whenever the file is open for writing or differs
\* from what it was at the call, backup_file has completed in this call and its
\* copy decodes to the text that was read.
C1_BackupBeforeWrite ==
  (InCall /\ script = "replacer"
     /\ (pc = "write_data" \/ disk[file_path] # pre.disk))
  => /\ backed_ok[file_path]
     /\ Decode(backup[file_path]) = original_content
     /\ Decode(pre.disk) = original_content

\* C2: when the rules made no substitution, the file is never opened for
\* writing, no backup is made and (False, 0) is returned; a file is written
\* only when the text after the rules differs from the text read.
C2_NoWriteWhenZero ==
  InCall =>
    /\ pc \in {"backup", "backup_data", "write_open", "write_data"}
         => (replacements_in_file > 0 /\ content # original_content)
    /\ (RulesDone /\ replacements_in_file = 0)
         => /\ disk[file_path] = pre.disk
            /\ backup[file_path] = pre.backup
            /\ pc \in {"rules", "ret"}
            /\ pc = "ret" => result = <<FALSE, 0>>
    /\ disk[file_path] # pre.disk => content # original_content

C2_Witness ==
  /\ InCall /\ pc = "ret" /\ RulesDone
  /\ replacements_in_file = 0
  /\ ~io_failed
  /\ \E i \in 1..Len(original_content) : original_content[i] = LOG

\* C3: an I/O failure at any step of process_file is caught there, the file's
\* result is (False, 0), the file is not among the modified files and adds
\* nothing to the total, and run() goes on to every remaining file.
C3_FailureIsPerFile ==
  /\ rpc # "aborted"
  /\ (InCall /\ pc = "ret" /\ io_failed) => result = <<FALSE, 0>>
  /\ \A i \in 1..Len(results) :
       results[i].failed =>
         /\ ~results[i].changed
         /\ results[i].count = 0
         /\ \A j \in 1..Len(modified_files) : modified_files[j] # results[i].file
  /\ replacements_made =
       SumCounts(SelectSeq(results, LAMBDA r : ~r.failed))
  /\ rpc = "done" =>
       FilesOf(results) = SelectSeq(js_files, Existed)

C3_Witness ==
  /\ rpc = "done"
  /\ Len(results) = NumFiles
  /\ results[1].failed /\ disk[1] # disk0[1]
  /\ results[2].failed /\ backup[2] # NoFile /\ disk[2] = disk0[2]
  /\ results[3].changed

C5_Aggregates ==
  rpc \in {"loop", "call", "done"} =>
    /\ replacements_made = SumCounts(results)
    /\ modified_files = FilesOf(SelectSeq(results, LAMBDA r : r.changed))
    /\ files_processed = Len(results)
    /\ \A i, j \in 1..Len(modified_files) :
         i < j => modified_files[i] < modified_files[j]

C5_Witness ==
  /\ rpc = "done"
  /\ Len(results) = NumFiles
  /\ results[1].changed /\ results[1].count = 2
  /\ ~results[2].changed
  /\ results[3].changed
  /\ \E i \in 1..2 : results[i].failed

\* C6 (as claimed): a call of process_file on a file whose previous call
\* returned normally makes no substitution: it returns (False, 0) and leaves
\* the file and its backup as they were.
C6_SecondCallIsNoOp ==
  (InCall /\ pc = "ret" /\ pre.prev_ok /\ ~io_failed)
  => /\ result = <<FALSE, 0>>
     /\ disk[file_path] = pre.disk
     /\ backup[file_path] = pre.backup

\* C7: the replacer never substitutes twice: a "#logger" of the input keeps
\* exactly its "ger", every "#log" is turned into "#logger" at most once, by at
\* most one rule, and the count of each rule, and of the file, is the number
\* of "#log" it has turned into "#logger".
C7_NoDoubleSubstitution ==
  (script = "replacer" /\ InCall /\ pc = "rules") =>
    LET a == LogPos(original_content)
        b == LogPos(content)
    IN /\ Len(a) = Len(b)
       /\ \A j \in 1..Len(a) :
            IF GerRun(original_content, a[j]) >= 1
            THEN GerRun(content, b[j]) = GerRun(original_content, a[j])
            ELSE GerRun(content, b[j]) <= 1
       /\ replacements_in_file = Cardinality(Converted(original_content, content))
       /\ \A i \in 1..Len(trace) :
            trace[i].count = Cardinality(Converted(trace[i].before, trace[i].after))
       /\ \A i, j \in 1..Len(trace) :
            i # j => Converted(trace[i].before, trace[i].after)
                       \cap Converted(trace[j].before, trace[j].after) = {}

C7_Witness ==
  /\ script = "replacer" /\ InCall /\ pc = "rules" /\ RulesDone
  /\ \E j \in 1..Len(LogPos(original_content)) :
       GerRun(original_content, LogPos(original_content)[j]) = 1
  /\ Cardinality({i \in 1..Len(trace) : trace[i].count > 0}) >= 2

\* C8: the three rules run in list order on one buffer, each on the text the
\* one before produced; a rule without match leaves it as it is; the count of
\* the file is the sum of the counts of the rules; the text written is the
\* buffer after the last rule.
C8_RulesInOrder ==
  (script = "replacer" /\ InCall) =>
    /\ pc = "rules" =>
         /\ Len(trace) = k - 1
         /\ \A i \in 1..Len(trace) :
              LET before == IF i = 1 THEN original_content ELSE trace[i - 1].after
                  r == subn(i, before)
              IN /\ trace[i].rule = i
                 /\ trace[i].before = before
                 /\ trace[i].after = r.text
                 /\ trace[i].count = r.count
                 /\ r.count = 0 => trace[i].after = before
         /\ content = IF trace = <<>> THEN original_content
                                      ELSE trace[Len(trace)].after
         /\ replacements_in_file = SumCounts(trace)
    /\ (pc = "ret" /\ result[1]) =>
         LET e == RuleEngine(original_content)
         IN /\ Decode(disk[file_path]) = e.text
            /\ result[2] = e.count

C8_Witness ==
  /\ script = "replacer" /\ InCall /\ pc = "ret" /\ result[1]
  /\ Len(trace) = 3
  /\ \A i \in 1..3 : trace[i].count = 1
  /\ result[2] = 3
  /\ disk[file_path] # pre.disk

\* C9 (as claimed): when process_file returns changed = False, the file on
\* disk is what it was before the call.
C9_UnchangedWhenFalse ==
  (InCall /\ pc = "ret" /\ ~result[1])
  => disk[file_path] = pre.disk

\* C10 (as claimed): across runs, a backup that backup_file has written
\* completely holds the text the file had before the first run.
C10_BackupKeepsOriginal ==
  \A f \in Files :
    backed_ok[f] => Decode(backup[f]) = Decode(disk0[f])

====
